---- MODULE Spec2Model ----
(***************************************************************************)
(* reactive-blocs, src/executors.ts: the three constructors that return a  *)
(* BehaviorSubject (execOnce, execControlled, ExecSubject / exec).  The    *)
(* executor is a black box that keeps its contract (Executor, line 4):     *)
(* every call returns a production, which may then emit any number of      *)
(* values, raise, or complete, at any time.  rxjs (BehaviorSubject,        *)
(* Subject, switchMap, tap, filter, catchError) behaves as documented.     *)
(* Spec is the ExecSubject; SpecForward is execOnce and execControlled,    *)
(* the two containers fed by execAndForward; SpecAlways is the Observable  *)
(* of execAlways; SpecShared is execControlled and execAlways together.    *)
(* An emission is a step of its own, after the call that started the       *)
(* production has returned.                                                 *)
(***************************************************************************)
EXTENDS Integers, Sequences, FiniteSets, TLC

\* ------------------------------------------------------------------ bounds
MaxExecs == 2          \* executor invocations in one run
MaxEmissions == 3      \* execAlways: emissions forwarded in one run

\* ------------------------------------------------------- JavaScript values
Undefined == [tag |-> "undefined", n |-> 0, msg |-> ""]
Num(k) == [tag |-> "number", n |-> k, msg |-> ""]
Str(s) == [tag |-> "string", n |-> 0, msg |-> s]
Bool(b) == [tag |-> "boolean", n |-> IF b THEN 1 ELSE 0, msg |-> ""]
\* new Error(m): an Error object whose message is m
ErrorObj(m) == [tag |-> "Error", n |-> 0, msg |-> m]
\* result instanceof Error
instanceofError(v) == v.tag = "Error"
\* String(v), the conversion new Error(v) applies to its argument
ToStr(v) ==
  CASE v.tag = "string" -> v.msg
    [] v.tag = "Error" -> "Error: " \o v.msg
    [] v.tag = "number" -> ToString(v.n)
    [] v.tag = "boolean" -> (IF v.n = 1 THEN "true" ELSE "false")
    [] OTHER -> "undefined"

\* the arguments exec and the handle are called with: <<>> is "no argument"
Args == {3, 5}
ArgLists == {<<>>} \cup {<<a>> : a \in Args}
\* what a production can emit: numbers (twice an argument) and an Error object
Emitted == {Num(2 * a) : a \in Args} \cup {ErrorObj("late")}
\* what a production can raise: a string or an Error object
Raised == {Str("bad"), ErrorObj("bad")}
\* the observers that may subscribe to the container
Observers == {"o1"}
\* the initialValue parameter (optional)
InitialValues == {Undefined, Num(0)}
\* what a production of execAlways can emit: primitives, compared by ===,
\* among them the values initialValue can have
EmittedAlways == {Num(6)} \cup InitialValues

VARIABLES
  kind,               \* which constructor built the container
  v0,                 \* the initialValue it was given
  value,              \* BehaviorSubject._value of the container
  stopped,            \* "" while the container is open, else "error" or "complete"
  obs,                \* per observer of the container, the value delivered last
  invs,               \* the executor invocations, in call order
  hasError,           \* ExecSubject: an error channel was supplied
  hasLoading,         \* ExecSubject: a loading channel was supplied
  error,              \* value of the error channel
  loading,            \* value of the loading channel
  executeImmediately, \* execControlled: the parameter
  handleKept,         \* execControlled: control kept doExec for later
  handleCalls,        \* execControlled: arguments of every call of doExec's handle
  delivered,          \* execAlways: per observer, the values passed to observer.next
  keys,               \* execAlways: per observer, distinctUntilChanged's last value
  emitted,            \* execAlways: the emissions forwarded to the subject, in order
  step,               \* the operation that ran last and its input
  trace               \* the writes the last operation made, in order

vars == <<kind, v0, value, stopped, obs, invs, hasError, hasLoading, error, loading,
          executeImmediately, handleKept, handleCalls, delivered, keys,
          emitted, step, trace>>

\* the state only execAlways uses
AlwaysState == <<delivered, keys, emitted>>

\* one write: op is the method called, v its argument, by the invocation
\* whose outcome caused it (0: the caller)
Eff(op, v, by) == [op |-> op, v |-> v, by |-> by]
Step(op, i, v) == [op |-> op, i |-> i, v |-> v]

\* the mutable part of the program's state, threaded through the handlers
Cur == [value |-> value, stopped |-> stopped, obs |-> obs, error |-> error,
        loading |-> loading, trace |-> <<>>]

\* what an observer holds when nothing was delivered to it
Nothing == [tag |-> "nothing", n |-> 0, msg |-> ""]

\* BehaviorSubject.next on the container: store, then notify every observer
\* (a stopped subject ignores next)
next(S, val, by) ==
  IF S.stopped # "" THEN S
  ELSE [S EXCEPT !.value = val,
                 !.obs = [k \in DOMAIN S.obs |-> val],
                 !.trace = Append(@, Eff("next", val, by))]

\* BehaviorSubject.subscribe on the container: the current value is delivered
\* (a stopped subject delivers no value)
subscribe(S) ==
  [S EXCEPT !.obs = Append(@, IF S.stopped = "" THEN S.value ELSE Nothing)]

\* exec(execArgs).subscribe(subject): the production's failure is passed to
\* the container, which ends with it
forwardErrorToSubject(S, err) ==
  [S EXCEPT !.stopped = IF @ = "" THEN "error" ELSE @]

\* execAndForward, lines 9-11: the subscriber has a next callback only; a
\* failure of the production reaches nothing of the container
forwardError(S, err) == S

\* the end of a production clears the loading channel
innerCompleteClearsLoading(S) ==
  IF hasLoading
  THEN [S EXCEPT !.loading = FALSE,
                 !.trace = Append(@, Eff("loading.next", Bool(FALSE), 0))]
  ELSE S

\* the production completes: execAndForward's subscriber (lines 9-11) has no
\* complete callback, and switchMap (line 62) passes nothing on when an
\* inner production completes
innerComplete(S) == S

\* a new executor invocation: exec(execArgs) was called and its production
\* subscribed to.  sub: the subscription is open; end: how the production
\* ended ("" while it runs); landed: an outcome reached the subscriber; late: the production produced an outcome after the
\* subscription was closed; via/phase: who called, and when
Invocation(args, via, phase) ==
  [args |-> args, sub |-> TRUE, end |-> "", landed |-> FALSE,
   late |-> FALSE, via |-> via, phase |-> phase]

\* execAndForward with switch-to-latest: a new invocation closes the
\* subscriptions of the earlier ones
execAndForwardSwitch(I, args, via, phase) ==
  [k \in DOMAIN I |-> [I[k] EXCEPT !.sub = FALSE]] \o <<Invocation(args, via, phase)>>

\* execAndForward: invoke the executor, subscribe val => subject.next(val)
execAndForward(I, args, via, phase) == Append(I, Invocation(args, via, phase))

\* doExec = () => execAndForward(exec, subject): the handle's arguments are
\* not passed on
doExecNoArgs(I, args, via, phase) == execAndForward(I, <<>>, via, phase)

\* execControlled, line 40: doExec = (execArgs?) => execAndForward(exec, subject, execArgs)
doExec(I, args, via, phase) == execAndForward(I, args, via, phase)

RECURSIVE controlCalls(_, _)
\* control(doExec), line 41: control runs and calls the handle once per
\* element of calls before it returns
controlCalls(I, calls) ==
  IF calls = <<>> THEN I
  ELSE controlCalls(doExec(I, Head(calls), "handle", "construction"), Tail(calls))

\* execControlled without line 42
execControlledNoImmediate(calls, immediately) == controlCalls(<<>>, calls)

\* execControlled, lines 41-42: control(doExec); executeImmediately && doExec()
execControlledBody(calls, immediately) ==
  LET I == controlCalls(<<>>, calls)
  IN IF immediately THEN doExec(I, <<>>, "ctor", "construction") ELSE I

\* a container that runs the executor for every subscriber, as the
\* Observable of execAlways does
onSubscribeInvoke(I) ==
  IF Len(I) < MaxExecs THEN execAndForward(I, <<>>, "subscribe", "later") ELSE I

\* execOnce, line 34, execControlled, line 44, ExecSubject: what is returned
\* is the BehaviorSubject itself, and subscribing to it invokes nothing
onSubscribe(I) == I

\* execOnce, line 32: execAndForward(exec, subject)
execOnceBody == execAndForward(<<>>, <<>>, "ctor", "construction")

\* ------------------------------------------------------------ ExecSubject
\* mergeMap in place of switchMap: earlier inner subscriptions stay open
mergeMapAll(I, inv) == I \o <<inv>>

\* switchMap, line 62: the previous inner subscription is unsubscribed, the
\* projection is called and its result subscribed to
switchMap(I, inv) == [k \in DOMAIN I |-> [I[k] EXCEPT !.sub = FALSE]] \o <<inv>>

\* catchError(err => of(err)): the failure is passed on as it was raised
catchErrorRaw(err) == err

\* catchError(err => of(new Error(err))), line 77: the production's failure
\* becomes an emitted Error object whose message is String(err)
catchError(err) == ErrorObj(ToStr(err))

\* performExec, lines 75-79: exec(args).pipe(catchError(...))
performExec(args) == Invocation(args, "exec", "later")

\* tap with the loading write moved behind the Error test: loading is
\* cleared for a value and left alone for a failure
tapLoadingOnSuccess(S, result, by) ==
  LET S1 == IF hasLoading /\ ~instanceofError(result)
            THEN [S EXCEPT !.loading = FALSE,
                           !.trace = Append(@, Eff("loading.next", Bool(FALSE), by))]
            ELSE S
  IN IF instanceofError(result) /\ hasError
     THEN [S1 EXCEPT !.error = result,
                     !.trace = Append(@, Eff("error.next", result, by))]
     ELSE S1

\* tap, lines 63-69
tap(S, result, by) ==
  LET S1 == IF hasLoading
            THEN [S EXCEPT !.loading = FALSE,
                           !.trace = Append(@, Eff("loading.next", Bool(FALSE), by))]
            ELSE S
  IN IF instanceofError(result) /\ hasError
     THEN [S1 EXCEPT !.error = result,
                     !.trace = Append(@, Eff("error.next", result, by))]
     ELSE S1

\* filter that lets every result through
filterNone(result) == TRUE

\* filter, line 70
filter(result) == ~instanceofError(result)

\* init with the container updated before the tap runs
initNextFirst(S, result, by) ==
  LET S1 == IF ~instanceofError(result) THEN next(S, result, by) ELSE S
  IN tap(S1, result, by)

\* init, lines 61-72: what one value leaving switchMap does
init(S, result, by) ==
  LET S1 == tap(S, result, by)
  IN IF filter(result) THEN next(S1, result, by) ELSE S1

\* exec without line 82
execLoadingNever(S) == S

\* exec, line 82: this._loading && this._loading.next(true)
execLoading(S) ==
  IF hasLoading
  THEN [S EXCEPT !.loading = TRUE,
                 !.trace = Append(@, Eff("loading.next", Bool(TRUE), 0))]
  ELSE S

\* exec, line 83: this._executionStream.next(args); switchMap calls
\* performExec, which calls the executor (invocation i)
executionStreamNext(S, a, i) ==
  [S EXCEPT !.trace = Append(@, Eff("executor", Num(a), i))]

\* exec, lines 82-83, in order
execBody(S, a, i) == executionStreamNext(execLoading(S), a, i)

\* ------------------------------------------------------------- execAlways
\* the initial value is handed to every new observer
deliverInitialAlways(log, v, initial) == Append(log, initial)

\* lines 18-20: if (subject.getValue() === initialValue) observer.next(initialValue)
deliverInitial(log, v, initial) ==
  IF v = initial THEN Append(log, initial) ELSE log

\* no distinctUntilChanged: every value of the subject is passed on
distinctNever(key, val) == TRUE

\* distinctUntilChanged, line 25: a value passes when it differs from the
\* value that passed last (the first value always passes)
distinctUntilChanged(key, val) == val # key

\* val => observer.next(val): the initial value is passed on too
forwardEvery(log, val, initial) == Append(log, val)

\* line 26: val => val !== initialValue && observer.next(val)
forwardToObserver(log, val, initial) ==
  IF val # initial THEN Append(log, val) ELSE log

\* execAndForward moved into the test of line 18: the executor runs only
\* for an observer that finds the initial value
invokeIfInitial(I, v, initial) ==
  IF v = initial THEN execAndForward(I, <<>>, "subscribe", "later") ELSE I

\* line 22: execAndForward(exec, subject), whatever the subject holds
invokeOnSubscribe(I, v, initial) ==
  execAndForward(I, <<>>, "subscribe", "later")

\* lines 24-26 at subscribe time: the BehaviorSubject replays its value v,
\* which is the first value distinctUntilChanged sees
replayToObserver(log, v, initial) == forwardToObserver(log, v, initial)

\* the subscribe function of the Observable, lines 17-27, for a new observer:
\* what it is delivered
observerSubscribes(v, initial) ==
  replayToObserver(deliverInitial(<<>>, v, initial), v, initial)

\* lines 24-26 when the subject publishes val: observer k's pipeline
observerReceives(k, val, initial) ==
  IF distinctUntilChanged(keys[k], val)
  THEN forwardToObserver(delivered[k], val, initial)
  ELSE delivered[k]

\* ------------------------------------------------------------------- Init
Quiet ==
  /\ delivered = <<>> /\ keys = <<>> /\ emitted = <<>>
  /\ stopped = ""
  /\ obs = <<>>
  /\ step = Step("new", 0, Undefined)
  /\ trace = <<>>

\* new ExecSubject(executor, initialValue, error, loading), lines 50-58
ExecSubject ==
  /\ kind = "ExecSubject"
  /\ v0 \in InitialValues /\ value = v0
  /\ hasError \in BOOLEAN /\ hasLoading \in BOOLEAN
  /\ error = Undefined /\ loading = FALSE
  /\ invs = <<>>
  /\ executeImmediately = FALSE /\ handleKept = FALSE /\ handleCalls = <<>>
  /\ Quiet

\* execOnce(exec, initialValue), lines 30-35
execOnce ==
  /\ kind = "execOnce"
  /\ v0 \in InitialValues /\ value = v0
  /\ hasError = FALSE /\ hasLoading = FALSE
  /\ error = Undefined /\ loading = FALSE
  /\ invs = execOnceBody
  /\ executeImmediately = FALSE /\ handleKept = FALSE /\ handleCalls = <<>>
  /\ Quiet

\* the handle calls a control function makes while it runs
SyncCalls == {<<>>} \cup {<<c>> : c \in ArgLists}

\* execControlled(exec, control, initialValue, executeImmediately), lines 37-45
execControlled ==
  /\ kind = "execControlled"
  /\ v0 \in InitialValues /\ value = v0
  /\ hasError = FALSE /\ hasLoading = FALSE
  /\ error = Undefined /\ loading = FALSE
  /\ executeImmediately \in BOOLEAN
  /\ handleKept \in BOOLEAN
  /\ handleCalls \in SyncCalls
  /\ invs = execControlledBody(handleCalls, executeImmediately)
  /\ Quiet

\* execAlways(exec, initialValue), lines 14-28: nothing runs until an
\* observer subscribes
execAlways ==
  /\ kind = "execAlways"
  /\ v0 \in InitialValues /\ value = v0
  /\ hasError = FALSE /\ hasLoading = FALSE
  /\ error = Undefined /\ loading = FALSE
  /\ invs = <<>>
  /\ executeImmediately = FALSE /\ handleKept = FALSE /\ handleCalls = <<>>
  /\ Quiet

Init == ExecSubject

InitAlways == execAlways

InitShared == execControlled \/ execAlways

InitForward == execOnce \/ execControlled

\* ---------------------------------------------------------------- actions
Commit(S) ==
  /\ value' = S.value
  /\ stopped' = S.stopped
  /\ obs' = S.obs
  /\ error' = S.error
  /\ loading' = S.loading
  /\ trace' = S.trace

Config == <<kind, v0, hasError, hasLoading, executeImmediately, handleKept>>

\* ExecSubject.exec(args), lines 81-84
exec(a) ==
  /\ kind = "ExecSubject"
  /\ Len(invs) < MaxExecs
  /\ invs' = switchMap(invs, performExec(<<a>>))
  /\ Commit(execBody(Cur, a, Len(invs) + 1))
  /\ step' = Step("exec", Len(invs) + 1, Num(a))
  /\ UNCHANGED <<Config, handleCalls, AlwaysState>>

\* the handle given to control is called after construction
HandleInvoked(args) ==
  /\ kind = "execControlled"
  /\ handleKept
  /\ Len(invs) < MaxExecs
  /\ invs' = doExec(invs, args, "handle", "later")
  /\ handleCalls' = Append(handleCalls, args)
  /\ Commit(Cur)
  /\ step' = Step("handle", Len(invs) + 1, Undefined)
  /\ UNCHANGED <<Config, AlwaysState>>

\* an observer subscribes to the returned container
Subscribe ==
  /\ kind # "execAlways"
  /\ Len(obs) < Cardinality(Observers)
  /\ Commit(subscribe(Cur))
  /\ invs' = onSubscribe(invs)
  /\ step' = Step("subscribe", Len(obs) + 1, Undefined)
  /\ UNCHANGED <<Config, handleCalls, AlwaysState>>

\* what the subscriber of invocation i's production does with a value:
\* ExecSubject runs it through init's pipeline, execAndForward (lines 9-11)
\* calls subject.next(val)
Deliver(S, i, val) ==
  IF kind = "ExecSubject" THEN init(S, val, i) ELSE next(S, val, i)

\* the production of invocation i emits x; a closed subscription receives
\* nothing
Emits(i, x) ==
  /\ kind # "execAlways"
  /\ i \in DOMAIN invs
  /\ invs[i].end = ""
  /\ invs' = IF invs[i].sub
             THEN [invs EXCEPT ![i].landed = TRUE]
             ELSE [invs EXCEPT ![i].late = TRUE]
  /\ Commit(IF invs[i].sub THEN Deliver(Cur, i, x) ELSE Cur)
  /\ step' = Step("emit", i, x)
  /\ UNCHANGED <<Config, handleCalls, AlwaysState>>

\* the production of invocation i raises err: ExecSubject's catchError turns
\* it into an emission; execAndForward's subscriber has no error handler
Raises(i, err) ==
  /\ i \in DOMAIN invs
  /\ invs[i].end = ""
  /\ invs' = IF invs[i].sub
             THEN [invs EXCEPT ![i].end = "error", ![i].sub = FALSE,
                               ![i].landed = (@ \/ kind = "ExecSubject")]
             ELSE [invs EXCEPT ![i].end = "error", ![i].late = TRUE]
  /\ Commit(IF ~invs[i].sub THEN Cur
            ELSE IF kind = "ExecSubject" THEN init(Cur, catchError(err), i)
            ELSE forwardError(Cur, err))
  /\ step' = Step("raise", i, err)
  /\ UNCHANGED <<Config, handleCalls, AlwaysState>>

\* the production of invocation i completes
Completes(i) ==
  /\ i \in DOMAIN invs
  /\ invs[i].end = ""
  /\ invs' = [invs EXCEPT ![i].end = "complete", ![i].sub = FALSE]
  /\ Commit(IF invs[i].sub THEN innerComplete(Cur) ELSE Cur)
  /\ step' = Step("complete", i, Undefined)
  /\ UNCHANGED <<Config, handleCalls, AlwaysState>>

\* an observer subscribes to the Observable execAlways returned, lines 17-27
SubscribeAlways ==
  /\ kind = "execAlways"
  /\ Len(invs) < MaxExecs
  /\ delivered' = Append(delivered, observerSubscribes(value, v0))
  /\ keys' = Append(keys, value)
  /\ invs' = invokeOnSubscribe(invs, value, v0)
  /\ Commit(Cur)
  /\ step' = Step("subscribe", Len(delivered) + 1, Undefined)
  /\ UNCHANGED <<Config, handleCalls, emitted>>

\* execAlways: the production of invocation i emits x, the subscriber of
\* lines 9-11 calls subject.next(x), and every observer's pipeline runs
EmitsAlways(i, x) ==
  /\ kind = "execAlways"
  /\ i \in DOMAIN invs
  /\ invs[i].end = "" /\ invs[i].sub
  /\ Len(emitted) < MaxEmissions
  /\ invs' = [invs EXCEPT ![i].landed = TRUE]
  /\ emitted' = Append(emitted, x)
  /\ delivered' = [k \in DOMAIN delivered |-> observerReceives(k, x, v0)]
  /\ keys' = [k \in DOMAIN keys |-> x]
  /\ Commit(next(Cur, x, i))
  /\ step' = Step("emit", i, x)
  /\ UNCHANGED <<Config, handleCalls>>

Next ==
  \/ \E a \in Args : exec(a)
  \/ Subscribe
  \/ \E i \in 1..MaxExecs, x \in Emitted : Emits(i, x)
  \/ \E i \in 1..MaxExecs, err \in Raised : Raises(i, err)
  \/ \E i \in 1..MaxExecs : Completes(i)

Spec == Init /\ [][Next]_vars

NextForward ==
  \/ \E args \in ArgLists : HandleInvoked(args)
  \/ Subscribe
  \/ \E i \in 1..MaxExecs, x \in Emitted : Emits(i, x)
  \/ \E i \in 1..MaxExecs, err \in Raised : Raises(i, err)
  \/ \E i \in 1..MaxExecs : Completes(i)

SpecForward == InitForward /\ [][NextForward]_vars

NextAlways ==
  \/ SubscribeAlways
  \/ \E i \in 1..MaxExecs, x \in EmittedAlways : EmitsAlways(i, x)
  \/ \E i \in 1..MaxExecs, err \in Raised : Raises(i, err)
  \/ \E i \in 1..MaxExecs : Completes(i)

SpecAlways == InitAlways /\ [][NextAlways]_vars

NextShared ==
  \/ \E args \in ArgLists : HandleInvoked(args)
  \/ Subscribe
  \/ SubscribeAlways
  \/ \E i \in 1..MaxExecs, x \in Emitted : Emits(i, x)
  \/ \E i \in 1..MaxExecs, x \in EmittedAlways : EmitsAlways(i, x)
  \/ \E i \in 1..MaxExecs, err \in Raised : Raises(i, err)
  \/ \E i \in 1..MaxExecs : Completes(i)

SpecShared == InitShared /\ [][NextShared]_vars

\* ----------------------------------------------------------------- claims
\* the step just taken is an outcome (a value or a failure) of invocation i
OutcomeOf(i) == step'.op \in {"emit", "raise"} /\ step'.i = i
\* the writes of the step just taken that call op
WritesTo(op) == {k \in DOMAIN trace' : trace'[k].op = op}

\* C1: only the most recently triggered invocation writes the container's
\* public value: every step that calls next on the container or changes its
\* value is an emission of the latest invocation, so an invocation that was
\* superseded before it emitted never supplies the value, however late its
\* production settles.
C1_OnlyLatestWritesValue ==
  [][/\ \A k \in WritesTo("next") : trace'[k].by = Len(invs')
     /\ (value' # value \/ WritesTo("next") # {})
          => step'.op = "emit" /\ step'.i = Len(invs) /\ value' = step'.v]_vars

\* C1 witness: exec(a1), exec(a2), E(a2) emits, and only then E(a1) emits:
\* the value is still the one E(a2) supplied.
C1_Witness ==
  /\ Len(invs) = 2
  /\ invs[1].late /\ ~invs[1].landed
  /\ invs[2].landed
  /\ step = Step("emit", 1, Num(6))
  /\ value = Num(10)

\* C5: with both channels, an outcome of an invocation that a newer exec has
\* superseded writes nothing: loading, the error channel and the public
\* value are all left as they were.
C5_StaleOutcomeWritesNothing ==
  [][(hasLoading /\ hasError /\ \E i \in 1..(Len(invs) - 1) : OutcomeOf(i))
       => /\ trace' = <<>>
          /\ loading' = loading /\ error' = error /\ value' = value
          /\ obs' = obs]_vars

\* C5 witness: E(a1) raises after exec(a2), while E(a2) is still pending:
\* loading is still true and the error channel still holds its initial value.
C5_Witness ==
  /\ hasLoading /\ hasError
  /\ Len(invs) = 2
  /\ step.op = "raise" /\ step.i = 1
  /\ invs[1].late /\ invs[1].end = "error"
  /\ ~invs[2].landed
  /\ loading = TRUE /\ error = Undefined /\ value = v0

\* the invocation triggered last, and whether the step just taken is its
\* production raising err
Latest == Len(invs)
LatestRaises == step'.op = "raise" /\ step'.i = Latest
LatestEmits == step'.op = "emit" /\ step'.i = Latest
\* the Error object that wraps a raised failure: its message is the failure's
\* text, "Error: m" for a failure that is itself an Error with message m
Wrapped(err) ==
  [tag |-> "Error", n |-> 0,
   msg |-> IF err.tag = "Error" THEN "Error: " \o err.msg ELSE err.msg]

\* C2: with error and loading channels, when the production of the latest
\* exec raises: loading, true since the exec unless an earlier value of the
\* same production cleared it, is written false; the error channel is
\* written the Error object wrapping the failure; the public value and what
\* observers hold are unchanged, and next is not called on the container.
C2_FailureOfLatest ==
  [][(hasError /\ hasLoading /\ LatestRaises)
       => /\ (~invs[Latest].landed => loading = TRUE)
          /\ trace' = <<Eff("loading.next", Bool(FALSE), Latest),
                        Eff("error.next", Wrapped(step'.v), Latest)>>
          /\ loading' = FALSE
          /\ error' = Wrapped(step'.v)
          /\ value' = value /\ obs' = obs]_vars

\* C2 witness: E = n => n === 0 ? raise("bad") : emit(n)-like run: exec, then
\* the production raises the string "bad" before emitting anything.
C2_Witness ==
  /\ hasError /\ hasLoading
  /\ Len(invs) = 1
  /\ step = Step("raise", 1, Str("bad"))
  /\ invs[1].end = "error" /\ invs[1].landed
  /\ loading = FALSE
  /\ error = ErrorObj("bad")
  /\ value = v0

\* C3, as claimed: whatever happened before, when the production of the
\* latest exec emits x, the container's public value becomes x.
C3_EmissionOfLatestBecomesValue ==
  [][LatestEmits => value' = step'.v]_vars

\* C4: with a loading channel, every exec writes true to it before the
\* executor is invoked and writes nothing else; once an outcome of the latest
\* invocation (a value or a caught failure) has landed, loading is false, and
\* it stays false until the next exec.
C4_LoadingTracksLatest ==
  /\ [](hasLoading /\ Latest > 0 /\ invs[Latest].landed => loading = FALSE)
  /\ [][(hasLoading /\ step'.op = "exec")
          => /\ trace' = <<Eff("loading.next", Bool(TRUE), 0),
                           Eff("executor", step'.v, Latest + 1)>>
             /\ loading' = TRUE]_vars
  /\ [][(hasLoading /\ loading /\ ~loading')
          => (LatestEmits \/ LatestRaises)]_vars

\* C4 witness: a second exec has set loading true again and its production
\* has then raised, so loading is false.
C4_Witness ==
  /\ hasLoading
  /\ Len(invs) = 2
  /\ invs[1].landed
  /\ step.op = "raise" /\ step.i = 2
  /\ invs[2].landed
  /\ loading = FALSE

\* C6, as claimed: the error channel is written only when the production of
\* the latest invocation raises.
C6_ErrorWrittenOnlyOnFailure ==
  [][(error' # error \/ WritesTo("error.next") # {}) => LatestRaises]_vars

\* an invocation's production has raised and the failure was caught
SomeFailed == \E j \in DOMAIN invs : invs[j].end = "error" /\ invs[j].landed

\* C7: without an error channel, when the production of the latest exec
\* raises, the only write is loading false (when there is a loading
\* channel): nothing records the failure and the public value is unchanged;
\* and after such a failure a later exec is processed as usual: it starts a
\* new invocation, whose value becomes the public value.
C7_FailureWithoutErrorChannel ==
  /\ [](~hasError => error = Undefined)
  /\ [][(~hasError /\ LatestRaises)
          => /\ trace' = IF hasLoading
                         THEN <<Eff("loading.next", Bool(FALSE), Latest)>>
                         ELSE <<>>
             /\ (hasLoading => loading' = FALSE)
             /\ value' = value /\ obs' = obs]_vars
  /\ [][(~hasError /\ SomeFailed /\ step'.op = "exec")
          => /\ Len(invs') = Latest + 1
             /\ invs'[Latest + 1].sub /\ invs'[Latest + 1].args = <<step'.v.n>>]_vars
  /\ [][(~hasError /\ SomeFailed /\ LatestEmits /\ ~instanceofError(step'.v))
          => value' = step'.v]_vars

\* C7 witness: no error channel; the first production raised, loading was
\* cleared, and a second exec then delivered 10.
C7_Witness ==
  /\ ~hasError /\ hasLoading
  /\ Len(invs) = 2
  /\ invs[1].end = "error" /\ invs[1].landed
  /\ step = Step("emit", 2, Num(10))
  /\ value = Num(10)
  /\ loading = FALSE
  /\ error = Undefined

\* C8: execOnce invokes E exactly once, at construction and with no
\* arguments, however many observers subscribe and whenever; the value is v0
\* until an emission of E has landed and is x once E has emitted x; an
\* observer is delivered the current value when it subscribes and holds the
\* container's value from then on.
C8_ExecOnce ==
  /\ [](kind = "execOnce"
          => /\ Len(invs) = 1
             /\ invs[1].args = <<>> /\ invs[1].phase = "construction"
             /\ (~invs[1].landed => value = v0)
             /\ \A k \in DOMAIN obs : obs[k] = value)
  /\ [][(kind = "execOnce" /\ step'.op = "emit") => value' = step'.v]_vars
  /\ [][(kind = "execOnce" /\ step'.op = "subscribe")
          => /\ Len(obs') = Len(obs) + 1
             /\ obs'[Len(obs')] = value
             /\ value' = value]_vars

\* C8 witness: E has emitted 6 and an observer subscribes afterwards: it is
\* delivered 6 and E has still been invoked once.
C8_Witness ==
  /\ kind = "execOnce"
  /\ v0 = Num(0)
  /\ invs[1].landed
  /\ step.op = "subscribe"
  /\ obs = <<Num(6)>>
  /\ value = Num(6)

\* the invocations made while the constructor ran, and those among them made
\* by the constructor itself and by control through the handle
DuringConstruction == {k \in DOMAIN invs : invs[k].phase = "construction"}
ByConstructor == {k \in DOMAIN invs : invs[k].via = "ctor"}
ByControl == {k \in DuringConstruction : invs[k].via = "handle"}

\* C9, as claimed: execControlled with executeImmediately = true invokes E
\* exactly once during construction, with no arguments, for every control.
C9_OnceDuringConstruction ==
  (kind = "execControlled" /\ executeImmediately)
    => /\ Cardinality(DuringConstruction) = 1
       /\ \A k \in DuringConstruction : invs[k].args = <<>>

\* C9, amended: with executeImmediately = true the constructor itself invokes
\* E exactly once, during construction, with no arguments and after control
\* has returned; the invocations control makes through the handle while it
\* runs come before it and are the only other ones made during construction.
C9_ConstructorInvokesOnce ==
  (kind = "execControlled" /\ executeImmediately)
    => /\ Cardinality(ByConstructor) = 1
       /\ \A k \in ByConstructor :
            /\ invs[k].args = <<>>
            /\ invs[k].phase = "construction"
            /\ k = Cardinality(ByControl) + 1
       /\ DuringConstruction = ByControl \cup ByConstructor
       /\ (ByControl = {} => Cardinality(DuringConstruction) = 1)

\* C9 witness: control called the handle with 5 while it ran; the
\* constructor's own invocation, without arguments, is the second.
C9_Witness ==
  /\ kind = "execControlled" /\ executeImmediately
  /\ Len(invs) = 2
  /\ invs[1].via = "handle" /\ invs[1].args = <<5>>
  /\ invs[2].via = "ctor" /\ invs[2].args = <<>>
  /\ invs[2].landed

\* C10: with executeImmediately = false, E is invoked once per call of the
\* handle, in call order and with the arguments of that call, and by nothing
\* else; while the handle has not been called E has not been invoked and the
\* value is v0.
C10_OnlyTheHandleInvokes ==
  (kind = "execControlled" /\ ~executeImmediately)
    => /\ Len(invs) = Len(handleCalls)
       /\ \A k \in DOMAIN invs :
            invs[k].args = handleCalls[k] /\ invs[k].via = "handle"
       /\ (handleCalls = <<>> => invs = <<>> /\ value = v0)

\* C10 witness: the handle was called with 3 while control ran and with 5
\* later: two invocations, E(3) and E(5), and E(5) has delivered 10.
C10_Witness ==
  /\ kind = "execControlled" /\ ~executeImmediately
  /\ handleCalls = << <<3>>, <<5>> >>
  /\ invs[1].args = <<3>> /\ invs[1].phase = "construction"
  /\ invs[2].args = <<5>> /\ invs[2].phase = "later"
  /\ step = Step("emit", 2, Num(10))
  /\ value = Num(10)

\* ---------------------------------------------------- claims, ExecSubject
\* C16: when the latest invocation emits a value that is published, the
\* loading channel is written false first and next is called on the
\* container after it: whoever is told that loading is false still reads the
\* previous value from the container.
C16_LoadingClearedBeforeValue ==
  [][(hasLoading /\ LatestEmits /\ ~instanceofError(step'.v))
       => /\ trace' = <<Eff("loading.next", Bool(FALSE), Latest),
                        Eff("next", step'.v, Latest)>>
          /\ loading' = FALSE
          /\ value' = step'.v]_vars

\* C16 witness: exec(3), E emits 6: loading false was written, then 6.
C16_Witness ==
  /\ hasLoading
  /\ step = Step("emit", 1, Num(6))
  /\ trace = <<Eff("loading.next", Bool(FALSE), 1), Eff("next", Num(6), 1)>>
  /\ value = Num(6) /\ loading = FALSE

\* C19: when the latest invocation emits, as an ordinary value, an Error
\* object, the writes are those of a caught failure: loading false (with a
\* loading channel), the Error object to the error channel (with an error
\* channel), and nothing to the container, whose value stays.
C19_EmittedErrorIsAFailure ==
  [][(LatestEmits /\ instanceofError(step'.v))
       => /\ trace' = (IF hasLoading
                        THEN <<Eff("loading.next", Bool(FALSE), Latest)>>
                        ELSE <<>>)
                       \o (IF hasError
                           THEN <<Eff("error.next", step'.v, Latest)>>
                           ELSE <<>>)
          /\ (hasLoading => loading' = FALSE)
          /\ error' = (IF hasError THEN step'.v ELSE error)
          /\ value' = value /\ obs' = obs]_vars

\* C19 witness: exec, E emits new Error("late") and goes on running: the
\* error channel holds that object, loading is false, the value is v0.
C19_Witness ==
  /\ hasError /\ hasLoading
  /\ Len(invs) = 1
  /\ step = Step("emit", 1, ErrorObj("late"))
  /\ invs[1].end = "" /\ invs[1].landed
  /\ error = ErrorObj("late")
  /\ loading = FALSE
  /\ value = v0

\* C20: when the production of the latest invocation completes having
\* emitted nothing and raised nothing, nothing is written: value and error
\* channel are unchanged and loading, true since the exec, is still true; it
\* is true for as long as no outcome of the latest invocation has landed.
C20_EmptyCompletionWritesNothing ==
  /\ [][(step'.op = "complete" /\ step'.i = Latest /\ ~invs[Latest].landed)
          => /\ trace' = <<>>
             /\ loading' = loading /\ error' = error
             /\ value' = value /\ obs' = obs
             /\ (hasLoading => loading' = TRUE)]_vars
  /\ [](hasLoading /\ Latest > 0 /\ ~invs[Latest].landed => loading = TRUE)

\* C20 witness: exec, then E completes without a value: loading is true.
C20_Witness ==
  /\ hasLoading /\ hasError
  /\ Len(invs) = 1
  /\ step.op = "complete" /\ step.i = 1
  /\ invs[1].end = "complete" /\ ~invs[1].landed
  /\ loading = TRUE /\ error = Undefined /\ value = v0

\* ------------------------------------- claims, execOnce and execControlled
\* the production of some invocation has raised
SomeRaised == \E j \in DOMAIN invs : invs[j].end = "error"

\* C15: in execOnce and execControlled a production that raises ends the
\* forwarding of its own invocation and touches nothing else: the container
\* keeps its value and is never errored or completed, the other invocations
\* keep their subscriptions, and afterwards values of other invocations are
\* still published to the container and its observers and calls of the
\* handle still start invocations.
C15_FailureStopsOneInvocation ==
  /\ [](stopped = "")
  /\ [][step'.op = "raise"
          => /\ value' = value /\ obs' = obs /\ trace' = <<>>
             /\ ~invs'[step'.i].sub
             /\ \A j \in DOMAIN invs : j # step'.i => invs'[j] = invs[j]]_vars
  /\ [][(SomeRaised /\ step'.op = "emit")
          => /\ value' = step'.v
             /\ \A k \in DOMAIN obs' : obs'[k] = step'.v]_vars
  /\ [][(SomeRaised /\ step'.op = "handle")
          => /\ Len(invs') = Len(invs) + 1
             /\ invs'[Len(invs')].sub]_vars

\* C15 witness: execControlled, E's first production raised, the handle was
\* called afterwards, and that invocation's 10 reached the observer.
C15_Witness ==
  /\ kind = "execControlled"
  /\ Len(invs) = 2
  /\ invs[1].end = "error"
  /\ invs[2].phase = "later"
  /\ step = Step("emit", 2, Num(10))
  /\ value = Num(10) /\ obs = <<Num(10)>>
  /\ stopped = ""

\* C18: execControlled and execAlways never cancel an invocation: while a
\* production runs its subscription stays open, whatever was triggered
\* since, so every emission of every invocation is published and the value
\* is always the value emitted last, which can be one of an older
\* invocation arriving after a newer one has delivered.
C18_NoSwitchToLatest ==
  /\ [](\A i \in DOMAIN invs : (invs[i].end = "" => invs[i].sub) /\ ~invs[i].late)
  /\ [][step'.op = "emit"
          => /\ value' = step'.v
             /\ trace' = <<Eff("next", step'.v, step'.i)>>]_vars
  /\ [][value' # value => step'.op = "emit"]_vars

\* C18 witness: execControlled, the trigger ran twice, the second invocation
\* has delivered, and then the first one emits 6, which becomes the value.
C18_Witness ==
  /\ kind = "execControlled"
  /\ Len(invs) = 2
  /\ invs[2].landed
  /\ step = Step("emit", 1, Num(6))
  /\ value = Num(6)

\* ----------------------------------------------------- claims, execAlways
\* the step just taken is a subscription of a new observer, observer New
SubscribeStep == step'.op = "subscribe" /\ Len(delivered') = Len(delivered) + 1
New == Len(delivered')
Last(q) == q[Len(q)]

\* C11: an observer that subscribes while no emission has landed is
\* delivered v0 at once and nothing else; and no observer is ever delivered
\* v0 after its first delivery, so that observer gets v0 exactly once.
C11_InitialValueOnce ==
  /\ [][(SubscribeStep /\ emitted = <<>>) => delivered'[New] = <<v0>>]_vars
  /\ [](\A k \in DOMAIN delivered :
          \A j \in 2..Len(delivered[k]) : delivered[k][j] # v0)

\* C11 witness: v0 = 0; the observer got 0 on subscribe, then 6; E then
\* emitted 0, which was not delivered.
C11_Witness ==
  /\ v0 = Num(0)
  /\ emitted = <<Num(6), Num(0)>>
  /\ delivered = << <<Num(0), Num(6)>> >>
  /\ value = Num(0)

\* C12, as claimed: a new observer is delivered v0 exactly when no emission
\* has landed in the shared state yet.
C12_InitialIffNothingLanded ==
  [][SubscribeStep
       => ((\E j \in DOMAIN delivered'[New] : delivered'[New][j] = v0)
             <=> emitted = <<>>)]_vars

\* C12, amended: a new observer is delivered v0 exactly when the shared
\* state equals v0 at that moment, which is the case while no emission has
\* landed and again whenever the emission that landed last equals v0; when
\* the emission that landed last differs from v0 it is delivered that value
\* and not v0.
C12_InitialIffStateIsInitial ==
  /\ [][SubscribeStep
          => /\ ((\E j \in DOMAIN delivered'[New] : delivered'[New][j] = v0)
                   <=> value = v0)
             /\ delivered'[New] = <<value>>]_vars
  /\ [](value = IF emitted = <<>> THEN v0 ELSE Last(emitted))

\* C12 witness: v0 = 0; E emitted 6 and then 0; a second observer
\* subscribes and is delivered 0.
C12_Witness ==
  /\ v0 = Num(0)
  /\ emitted = <<Num(6), Num(0)>>
  /\ step = Step("subscribe", 2, Undefined)
  /\ Len(delivered) = 2
  /\ delivered[2] = <<Num(0)>>

\* C13: when an emission forwarded into the shared state equals the one
\* forwarded just before it, whichever invocations they come from, it is
\* delivered to no observer: an observer gets at most one delivery for the
\* two.
C13_EqualEmissionsDeliveredOnce ==
  [][(step'.op = "emit" /\ emitted # <<>> /\ Last(emitted) = step'.v)
       => delivered' = delivered]_vars

\* C13 witness: the first invocation emitted 6, a second observer
\* subscribed (and got 6), its invocation emitted 6 too: one 6 each.
C13_Witness ==
  /\ v0 = Num(0)
  /\ emitted = <<Num(6), Num(6)>>
  /\ Len(invs) = 2 /\ invs[1].landed /\ invs[2].landed
  /\ step = Step("emit", 2, Num(6))
  /\ delivered = << <<Num(0), Num(6)>>, <<Num(6)>> >>

\* C14: E has been invoked once per subscription, without arguments, so N
\* times after N subscriptions and never before the first; a subscription
\* invokes it whatever the shared state holds; and every invocation's
\* emission goes into the one shared state.
C14_OneInvocationPerSubscription ==
  /\ [](/\ Len(invs) = Len(delivered)
        /\ \A i \in DOMAIN invs :
             invs[i].args = <<>> /\ invs[i].via = "subscribe")
  /\ [][SubscribeStep
          => Len(invs') = Len(invs) + 1 /\ invs'[Len(invs')].sub]_vars
  /\ [][step'.op = "emit"
          => value' = step'.v /\ emitted' = Append(emitted, step'.v)]_vars

\* C14 witness: the shared state already holds 6 when a second observer
\* subscribes: E is invoked a second time.
C14_Witness ==
  /\ Len(invs) = 2 /\ Len(delivered) = 2
  /\ step = Step("subscribe", 2, Undefined)
  /\ value = Num(6) /\ v0 = Num(0)
  /\ invs[1].landed /\ ~invs[2].landed

\* C17, as claimed: what one observer is delivered never has two equal
\* values in a row.
C17_NoEqualNeighbours ==
  \A k \in DOMAIN delivered :
    \A j \in 1..(Len(delivered[k]) - 1) : delivered[k][j] # delivered[k][j + 1]

\* C17, amended: an observer is delivered the value it was delivered last
\* once more only when the shared state held v0 in between, that is when an
\* emission equal to v0 (which is not delivered) landed after it.
C17_EqualNeighboursOnlyAcrossInitial ==
  [][\A k \in DOMAIN delivered :
       (delivered'[k] # delivered[k] /\ Last(delivered'[k]) = Last(delivered[k]))
         => (value = v0 /\ emitted # <<>> /\ Last(delivered[k]) # v0)]_vars

\* C17 witness: v0 = 0; E emits 6, 0, 6: the observer has 0, 6, 6.
C17_Witness ==
  /\ v0 = Num(0)
  /\ emitted = <<Num(6), Num(0), Num(6)>>
  /\ delivered = << <<Num(0), Num(6), Num(6)>> >>
====
